---------------------------- MODULE Spec2Model ----------------------------
(***************************************************************************)
(* A model of spinup (src/main.rs): the terminal audio browser's AppState, *)
(* its directory listing, its selection arithmetic, its single playback    *)
(* session and the tick/poll loop of run_app.                              *)
(*                                                                         *)
(* Strings are sequences of byte values, so that sorting, prefixing and    *)
(* extension matching are computed as the code computes them.  The byte    *)
(* 255 stands for a byte that is not valid UTF-8.  Option<T> is a sequence *)
(* of length 0 (None) or 1 (Some).                                         *)
(***************************************************************************)
EXTENDS Integers, Sequences, FiniteSets, TLC

----------------------------------------------------------------------------
(* Bounds of the model *)

\* Duration::MAX, scaled down (milliseconds) so that checked_add can overflow.
DURATION_MAX == 150
\* usize::BITS, scaled down so that wrapped indices stay representable.
USIZE_BITS == 8
\* Number of playback handles the audio engine hands out in one run.
MaxPlays == 2

----------------------------------------------------------------------------
(* Option<T> *)

None == <<>>
Some(v) == <<v>>
is_some(o) == Len(o) = 1
is_none(o) == Len(o) = 0
unwrap(o) == o[1]

USIZE_MOD == 2 ^ USIZE_BITS

----------------------------------------------------------------------------
(* Strings *)

\* "<DIR> "
DIR_LISTITEM_PREFIX == <<60, 68, 73, 82, 62, 32>>
\* ["wav", "ogg", "mp3", "flac"]
SUPPORTED_EXTS ==
    << <<119, 97, 118>>, <<111, 103, 103>>, <<109, 112, 51>>, <<102, 108, 97, 99>> >>
\* ".."
PARENT_NAME == <<46, 46>>

\* str::to_lowercase, on ASCII
to_lowercase(s) ==
    [i \in 1..Len(s) |-> IF s[i] \in 65..90 THEN s[i] + 32 ELSE s[i]]

\* Ord for String: bytewise lexicographic, a < b
str_lt(a, b) ==
    \E k \in 1..(Len(a) + 1) :
        /\ k <= Len(b)
        /\ \A i \in 1..(k - 1) : a[i] = b[i]
        /\ (k = Len(a) + 1 \/ a[k] < b[k])

\* str::starts_with
starts_with(s, p) ==
    /\ Len(s) >= Len(p)
    /\ \A i \in 1..Len(p) : s[i] = p[i]

\* OsStr::to_str / OsString::into_string succeed only on valid UTF-8
is_utf8(s) == \A i \in 1..Len(s) : s[i] < 128

\* format!("{}{}", a, b)
concat(a, b) == a \o b

\* Path::extension: the part after the last '.', None when the name has no
\* '.' or only begins with one
extension(name) ==
    LET dots == {i \in 1..Len(name) : name[i] = 46}
    IN  IF dots = {} THEN None
        ELSE LET last == CHOOSE i \in dots : \A j \in dots : j <= i
             IN  IF last = 1 THEN None
                 ELSE Some(SubSeq(name, last + 1, Len(name)))

\* OsStr::eq_ignore_ascii_case
eq_ignore_ascii_case(a, b) == to_lowercase(a) = to_lowercase(b)

\* the loop over SUPPORTED_EXTS
is_supported_ext(ext) ==
    \E k \in 1..Len(SUPPORTED_EXTS) : eq_ignore_ascii_case(ext, SUPPORTED_EXTS[k])

----------------------------------------------------------------------------
(* slice::sort_by with the comparison of update_file_names: a stable sort  *)
(* on the lowercased strings.                                              *)

\* mutant of cmp_lt: the comparison without to_lowercase
cmp_lt_case_sensitive(a, b) == str_lt(a, b)

\* the comparison closure: a.to_lowercase() < b.to_lowercase()
cmp_lt(a, b) == str_lt(to_lowercase(a), to_lowercase(b))

\* x goes before the first element that compares greater (stable)
insert_sorted(x, sorted) ==
    LET later == {i \in 1..Len(sorted) : cmp_lt(x, sorted[i])}
        pos == IF later = {} THEN Len(sorted) + 1
               ELSE CHOOSE i \in later : \A j \in later : i <= j
    IN  SubSeq(sorted, 1, pos - 1) \o <<x>> \o SubSeq(sorted, pos, Len(sorted))

RECURSIVE sort_rec(_, _)
sort_rec(rest, acc) ==
    IF rest = <<>> THEN acc
    ELSE sort_rec(Tail(rest), insert_sorted(Head(rest), acc))

sort_by(strings) == sort_rec(strings, <<>>)

----------------------------------------------------------------------------
(* The file systems the program is run on.  A path is the sequence of its  *)
(* components below the root; the root itself has no parent.               *)

\* "Music", "raw", ".c", "sub", "-x", "Vault", "nosuch"
nMusic == <<77, 117, 115, 105, 99>>
nRaw == <<114, 97, 119>>
nHidden == <<46, 99>>
nSub == <<115, 117, 98>>
nDash == <<45, 120>>
nVault == <<86, 97, 117, 108, 116>>
nNoSuch == <<110, 111, 115, 117, 99, 104>>
\* "r.ogg", "b.wav", "A.mp3", "n.txt", ".h.wav", "a.OGG", "A.ogg", "\xFF.wav"
fROgg == <<114, 46, 111, 103, 103>>
fBWav == <<98, 46, 119, 97, 118>>
fAMp3 == <<65, 46, 109, 112, 51>>
fNTxt == <<110, 46, 116, 120, 116>>
fHWav == <<46, 104, 46, 119, 97, 118>>
fAOGG == <<97, 46, 79, 71, 71>>
fAogg == <<65, 46, 111, 103, 103>>
fBadName == <<255, 46, 119, 97, 118>>

Dir(n) == [name |-> n, kind |-> "dir"]
File(n) == [name |-> n, kind |-> "file"]

\* A music collection: a root without parent, a directory whose siblings
\* sort around "..", an empty directory, a directory that cannot be read
\* and one holding a name that is not UTF-8.
FS_A ==
    (<<>> :> [readable |-> TRUE,
              entries |-> {Dir(nMusic), Dir(nRaw), Dir(nHidden), File(fROgg)}])
    @@ (<<nMusic>> :> [readable |-> TRUE,
              entries |-> {Dir(nSub), Dir(nDash), Dir(nVault),
                           File(fBWav), File(fAMp3), File(fNTxt), File(fHWav)}])
    @@ (<<nMusic, nSub>> :> [readable |-> TRUE, entries |-> {}])
    @@ (<<nMusic, nDash>> :> [readable |-> TRUE,
              entries |-> {File(fAOGG), File(fAogg)}])
    @@ (<<nMusic, nVault>> :> [readable |-> FALSE, entries |-> {}])
    @@ (<<nRaw>> :> [readable |-> TRUE, entries |-> {File(fBadName)}])
    @@ (<<nHidden>> :> [readable |-> TRUE, entries |-> {}])

\* A root that shows nothing: a hidden directory and a file that is no audio.
FS_B ==
    (<<>> :> [readable |-> TRUE, entries |-> {Dir(nHidden), File(fNTxt)}])
    @@ (<<nHidden>> :> [readable |-> TRUE, entries |-> {}])

FileSystems == <<FS_A, FS_B>>

\* the working directory of the process in each file system
ProcessCwd == << <<nMusic>>, <<>> >>

\* the values of --dir tried
ArgDirs == {None, Some(<<>>), Some(<<nMusic>>), Some(<<nMusic, nSub>>), Some(<<nNoSuch>>)}

\* What the decoder and the prober find in each audio file: whether
\* StaticSoundData::from_file succeeds, its duration (ms), whether the probe
\* succeeds and the codec parameters of the default track.
MEDIA ==
    (fROgg :> [decodes |-> TRUE, duration |-> 500, probes |-> TRUE,
               sample_rate |-> Some(48000), bits_per_sample |-> None,
               channel_layout |-> Some("Mono")])
    @@ (fBWav :> [decodes |-> TRUE, duration |-> 132, probes |-> TRUE,
               sample_rate |-> Some(44100), bits_per_sample |-> Some(16),
               channel_layout |-> Some("Stereo")])
    @@ (fAMp3 :> [decodes |-> FALSE, duration |-> 0, probes |-> TRUE,
               sample_rate |-> Some(44100), bits_per_sample |-> None,
               channel_layout |-> None])
    @@ (fAOGG :> [decodes |-> FALSE, duration |-> 0, probes |-> FALSE,
               sample_rate |-> None, bits_per_sample |-> None,
               channel_layout |-> None])
    @@ (fAogg :> [decodes |-> FALSE, duration |-> 0, probes |-> FALSE,
               sample_rate |-> None, bits_per_sample |-> None,
               channel_layout |-> None])

\* String::default(), the path before set_current_directory
EMPTY_PATH == << <<>> >>

\* Path::parent().is_some()
has_parent(path) == path # <<>> /\ path # EMPTY_PATH

\* Path::join(name).canonicalize() on an existing directory
join_canonical(path, name) ==
    IF name = PARENT_NAME THEN SubSeq(path, 1, Len(path) - 1)
    ELSE Append(path, name)

\* fs::read_dir succeeds on a directory that exists and can be read
read_dir_ok(fsys, path) == path \in DOMAIN fsys /\ fsys[path].readable

\* the orders in which read_dir may yield a set of entries
ReadOrders(S) ==
    {s \in [1..Cardinality(S) -> S] : \A i, j \in 1..Cardinality(S) : i # j => s[i] # s[j]}

----------------------------------------------------------------------------
(* get_directories_in_dir and get_supported_filenames_in_dir.  The filters *)
(* keep the order read_dir yields, so the entries that pass are taken in   *)
(* any order.  A result is [ok, panic, names].                             *)

\* the directories that pass the filter_map of get_directories_in_dir
visible_dirs(fsys, path) ==
    {e.name : e \in {d \in fsys[path].entries :
                        d.kind = "dir" /\ ~starts_with(d.name, <<46>>)}}

\* os_fn.to_str().unwrap() panics on a directory name that is not UTF-8
dirs_unwrap_panics(fsys, path) ==
    \E e \in fsys[path].entries : e.kind = "dir" /\ ~is_utf8(e.name)

\* the orders get_directories_in_dir's filter may yield
DirOrders(fsys, path) ==
    IF read_dir_ok(fsys, path) THEN ReadOrders(visible_dirs(fsys, path)) ELSE {<<>>}

get_directories_in_dir(fsys, path, order) ==
    IF ~read_dir_ok(fsys, path) THEN [ok |-> FALSE, panic |-> FALSE, names |-> <<>>]
    ELSE IF dirs_unwrap_panics(fsys, path)
         THEN [ok |-> FALSE, panic |-> TRUE, names |-> <<>>]
    ELSE LET filtered_paths ==
                 [i \in 1..Len(order) |-> concat(DIR_LISTITEM_PREFIX, order[i])]
         IN  [ok |-> TRUE, panic |-> FALSE,
              names |-> IF has_parent(path)
                        THEN <<concat(DIR_LISTITEM_PREFIX, PARENT_NAME)>> \o filtered_paths
                        ELSE filtered_paths]

\* the files that pass the filters of get_supported_files_in_dir
supported_files(fsys, path) ==
    {e.name : e \in {f \in fsys[path].entries :
                        /\ f.kind = "file"
                        /\ ~starts_with(f.name, <<46>>)
                        /\ is_some(extension(f.name))
                        /\ is_supported_ext(unwrap(extension(f.name)))}}

\* os_fn.to_str().unwrap() panics on a file name that is not UTF-8
files_unwrap_panics(fsys, path) ==
    \E e \in fsys[path].entries : e.kind = "file" /\ ~is_utf8(e.name)

FileOrders(fsys, path) ==
    IF read_dir_ok(fsys, path) /\ ~files_unwrap_panics(fsys, path)
    THEN ReadOrders(supported_files(fsys, path)) ELSE {<<>>}

get_supported_filenames_in_dir(fsys, path, order) ==
    IF ~read_dir_ok(fsys, path) THEN [ok |-> FALSE, panic |-> FALSE, names |-> <<>>]
    ELSE IF files_unwrap_panics(fsys, path)
         THEN [ok |-> FALSE, panic |-> TRUE, names |-> <<>>]
    ELSE [ok |-> TRUE, panic |-> FALSE, names |-> order]

----------------------------------------------------------------------------
(* usize arithmetic.  A subtraction that underflows panics in a build with *)
(* overflow checks and wraps in a build without them: checks is drawn at   *)
(* each call, since nothing in the source fixes the build.                 *)

usize_sub(a, b, checks) ==
    IF a >= b THEN [panic |-> FALSE, v |-> a - b]
    ELSE IF checks THEN [panic |-> TRUE, v |-> 0]
    ELSE [panic |-> FALSE, v |-> (a - b) % USIZE_MOD]

----------------------------------------------------------------------------
(* SoundState *)

\* SoundState::default()
SoundState_default ==
    [sound |-> None, sound_data |-> None, play_time |-> 0, play_duration |-> 0]

\* mutant of engine_stop: the handle is released without being stopped
engine_stop_not_sent(eng, handle) == eng

\* StaticSoundHandle::stop as the engine sees it: the handle leaves Playing
engine_stop(eng, handle) == [eng EXCEPT ![handle] = "Stopped"]

\* AudioManager::play as the engine sees it: a new handle, playing
engine_play(eng) == Append(eng, "Playing")

\* mutant of stop_sound: the elapsed playtime is not reset
stop_sound_keeps_playtime(ss, stop_ok) ==
    IF is_some(ss.sound)
    THEN IF ~stop_ok THEN [err |-> TRUE, ss |-> ss]
         ELSE [err |-> FALSE, ss |-> [ss EXCEPT !.sound = None, !.sound_data = None]]
    ELSE [err |-> FALSE, ss |-> ss]

\* SoundState::stop_sound; stop_ok is the result of StaticSoundHandle::stop
stop_sound(ss, stop_ok) ==
    IF is_some(ss.sound)
    THEN IF ~stop_ok THEN [err |-> TRUE, ss |-> ss]
         ELSE [err |-> FALSE,
               ss |-> [ss EXCEPT !.sound = None, !.sound_data = None, !.play_time = 0]]
    ELSE [err |-> FALSE, ss |-> ss]

\* SoundState::started_sound
started_sound(ss, handle, data) ==
    [play_duration |-> data.duration,
     sound |-> Some(handle),
     sound_data |-> Some(data),
     play_time |-> 0]

\* SoundState::is_playing
is_playing(ss, eng) ==
    IF is_some(ss.sound) THEN eng[unwrap(ss.sound)] = "Playing" ELSE FALSE

\* Duration::checked_add
checked_add(a, b) == IF a + b <= DURATION_MAX THEN Some(a + b) ELSE None

\* mutant of add_playtime: a wrapping addition in place of checked_add
add_playtime_wrapping(ss, t) ==
    [ss EXCEPT !.play_time = (ss.play_time + t) % (DURATION_MAX + 1)]

\* SoundState::add_playtime
add_playtime(ss, t) ==
    LET new_duration == checked_add(ss.play_time, t)
    IN  IF is_some(new_duration) THEN [ss EXCEPT !.play_time = unwrap(new_duration)]
        ELSE ss

----------------------------------------------------------------------------
(* AppState: selection *)

\* SoundFileCodecData::default()
SoundFileCodecData_default ==
    [sample_rate |-> None, bit_depth |-> None, file_layout |-> None]

\* AppState::is_dir_selected
is_dir_selected(sel, dirs) ==
    IF is_none(sel) THEN FALSE ELSE unwrap(sel) < Len(dirs)

\* AppState::is_file_selected
is_file_selected(sel, dirs) ==
    IF is_none(sel) THEN FALSE ELSE unwrap(sel) >= Len(dirs)

\* AppState::get_selected_file_name; indices are 0-based in the code.
\* Indexing file_names past its end panics.
get_selected_file_name(sel, dirs, files) ==
    IF is_none(sel) THEN [panic |-> FALSE, name |-> None]
    ELSE LET num_dirs == Len(dirs)
             sel_index == unwrap(sel)
         IN  IF sel_index < num_dirs
             THEN LET dir_with_prefix == dirs[sel_index + 1]
                  IN  [panic |-> FALSE,
                       name |-> Some(SubSeq(dir_with_prefix,
                                            Len(DIR_LISTITEM_PREFIX) + 1,
                                            Len(dir_with_prefix)))]
             ELSE IF sel_index - num_dirs < Len(files)
                  THEN [panic |-> FALSE, name |-> Some(files[sel_index - num_dirs + 1])]
                  ELSE [panic |-> TRUE, name |-> None]

\* the symphonia probe of a file: File::open, format(), default_track()
probe(name) ==
    IF name \in DOMAIN MEDIA /\ MEDIA[name].probes
    THEN [ok |-> TRUE,
          info |-> [sample_rate |-> MEDIA[name].sample_rate,
                    bit_depth |-> MEDIA[name].bits_per_sample,
                    file_layout |-> MEDIA[name].channel_layout]]
    ELSE [ok |-> FALSE, info |-> SoundFileCodecData_default]

\* AppState::update_selected_file_info: [panic, err, info]
update_selected_file_info(sel, dirs, files) ==
    IF ~is_file_selected(sel, dirs)
    THEN [panic |-> FALSE, err |-> FALSE, info |-> SoundFileCodecData_default]
    ELSE LET sel_file_name == get_selected_file_name(sel, dirs, files)
         IN  IF sel_file_name.panic
             THEN [panic |-> TRUE, err |-> FALSE, info |-> SoundFileCodecData_default]
             ELSE IF is_none(sel_file_name.name)
             THEN [panic |-> FALSE, err |-> FALSE, info |-> SoundFileCodecData_default]
             ELSE LET p == probe(unwrap(sel_file_name.name))
                  IN  [panic |-> FALSE, err |-> ~p.ok, info |-> p.info]

\* mutant of next_list_item: the wrap test against total_size
next_list_item_off_by_one(sel, files, dirs, checks) ==
    IF is_some(sel)
    THEN LET i == unwrap(sel)
             total_size == Len(files) + Len(dirs)
         IN  IF i >= total_size THEN [panic |-> FALSE, sel |-> Some(0)]
             ELSE [panic |-> FALSE, sel |-> Some(i + 1)]
    ELSE [panic |-> FALSE, sel |-> Some(0)]

\* AppState::next_list_item: [panic, sel]
next_list_item(sel, files, dirs, checks) ==
    IF is_some(sel)
    THEN LET i == unwrap(sel)
             total_size == Len(files) + Len(dirs)
             last == usize_sub(total_size, 1, checks)
         IN  IF last.panic THEN [panic |-> TRUE, sel |-> sel]
             ELSE IF i >= last.v THEN [panic |-> FALSE, sel |-> Some(0)]
             ELSE [panic |-> FALSE, sel |-> Some(i + 1)]
    ELSE [panic |-> FALSE, sel |-> Some(0)]

\* mutant of previous_list_item: no wrap at index 0
previous_list_item_no_wrap(sel, files, dirs, checks) ==
    IF is_some(sel)
    THEN LET i == unwrap(sel)
         IN  IF i = 0 THEN [panic |-> FALSE, sel |-> Some(0)]
             ELSE [panic |-> FALSE, sel |-> Some(i - 1)]
    ELSE [panic |-> FALSE, sel |-> Some(0)]

\* mutant of previous_list_item: no selection goes to the last index
previous_list_item_none_to_last(sel, files, dirs, checks) ==
    LET total_size == Len(files) + Len(dirs)
        last == usize_sub(total_size, 1, checks)
    IN  IF is_some(sel)
        THEN LET i == unwrap(sel)
             IN  IF i = 0
                 THEN IF last.panic THEN [panic |-> TRUE, sel |-> sel]
                      ELSE [panic |-> FALSE, sel |-> Some(last.v)]
                 ELSE [panic |-> FALSE, sel |-> Some(i - 1)]
        ELSE IF last.panic THEN [panic |-> TRUE, sel |-> sel]
             ELSE [panic |-> FALSE, sel |-> Some(last.v)]

\* AppState::previous_list_item: [panic, sel]
previous_list_item(sel, files, dirs, checks) ==
    IF is_some(sel)
    THEN LET i == unwrap(sel)
             total_size == Len(files) + Len(dirs)
         IN  IF i = 0
             THEN LET last == usize_sub(total_size, 1, checks)
                  IN  IF last.panic THEN [panic |-> TRUE, sel |-> sel]
                      ELSE [panic |-> FALSE, sel |-> Some(last.v)]
             ELSE [panic |-> FALSE, sel |-> Some(i - 1)]
    ELSE [panic |-> FALSE, sel |-> Some(0)]

----------------------------------------------------------------------------
(* AppState::update_file_names.  The result holds the fields it writes and *)
(* whether it panicked; a panic leaves the fields as they were at the      *)
(* panicking call.                                                         *)

ERR_DIR_LIST == "Failed to update directory list"
ERR_FILE_LIST == "Failed to update file list"
ERR_STOP == "Playback Stop Error"
ERR_PLAY == "Playback Error"
ERR_PATH == "Couldn't build path to selection"

update_file_names(fsys, needs, path, dirs, files, msg, sel, dir_order, file_order) ==
    IF ~needs
    THEN [panic |-> FALSE, directory_names |-> dirs, file_names |-> files,
          last_error_msg |-> msg, file_list_state |-> sel,
          needs_file_list_update |-> needs]
    ELSE LET d == get_directories_in_dir(fsys, path, dir_order)
             new_dirs == IF d.ok THEN sort_by(d.names) ELSE <<>>
             msg1 == IF d.ok THEN msg ELSE ERR_DIR_LIST
             f == get_supported_filenames_in_dir(fsys, path, file_order)
             new_files == IF f.ok THEN sort_by(f.names) ELSE <<>>
             msg2 == IF f.ok THEN msg1 ELSE ERR_FILE_LIST
         IN  IF d.panic
             THEN [panic |-> TRUE, directory_names |-> <<>>, file_names |-> files,
                   last_error_msg |-> msg, file_list_state |-> sel,
                   needs_file_list_update |-> needs]
             ELSE IF f.panic
             THEN [panic |-> TRUE, directory_names |-> new_dirs, file_names |-> <<>>,
                   last_error_msg |-> msg1, file_list_state |-> sel,
                   needs_file_list_update |-> needs]
             ELSE [panic |-> FALSE, directory_names |-> new_dirs,
                   file_names |-> new_files, last_error_msg |-> msg2,
                   file_list_state |-> None, needs_file_list_update |-> FALSE]

----------------------------------------------------------------------------
(* Sequences of calls made by run_app and by play_selected_file *)

\* AppState::select_list_item: [panic, sel, info]
select_list_item(i, dirs, files) ==
    LET r == update_selected_file_info(Some(i), dirs, files)
    IN  [panic |-> r.panic, sel |-> Some(i), info |-> r.info]

\* set_current_directory(dir); update_file_names(); select_list_item(0), as
\* run_app calls them at startup and on a directory entry.  The result
\* holds the AppState fields written and whether one of the calls panicked.
enter_directory(fsys, dir, dirs, files, msg, sel, info, dir_order, file_order) ==
    LET u == update_file_names(fsys, TRUE, dir, dirs, files, msg, sel,
                               dir_order, file_order)
        s == select_list_item(0, u.directory_names, u.file_names)
    IN  IF u.panic
        THEN [panic |-> TRUE, current_directory_path |-> dir,
              needs_file_list_update |-> TRUE,
              directory_names |-> u.directory_names, file_names |-> u.file_names,
              last_error_msg |-> u.last_error_msg, file_list_state |-> sel,
              select_file_info |-> info]
        ELSE [panic |-> s.panic, current_directory_path |-> dir,
              needs_file_list_update |-> FALSE,
              directory_names |-> u.directory_names, file_names |-> u.file_names,
              last_error_msg |-> u.last_error_msg, file_list_state |-> s.sel,
              select_file_info |-> s.info]

\* StaticSoundData::from_file on the selected file
from_file(dir, name) ==
    IF name \in DOMAIN MEDIA /\ MEDIA[name].decodes
    THEN [ok |-> TRUE, data |-> [dir |-> dir, name |-> name,
                                 duration |-> MEDIA[name].duration]]
    ELSE [ok |-> FALSE, data |-> [dir |-> dir, name |-> name, duration |-> 0]]

\* mutant of play_selected_file: the running sound is stopped before the
\* file is decoded
play_selected_file_stop_first(dir, sel, dirs, files, ss, eng, stop_ok, play_ok) ==
    LET sel_file_name == get_selected_file_name(sel, dirs, files)
    IN  IF sel_file_name.panic
        THEN [panic |-> TRUE, err |-> "", ss |-> ss, eng |-> eng, log |-> <<>>]
        ELSE IF is_none(sel_file_name.name)
        THEN [panic |-> FALSE, err |-> "", ss |-> ss, eng |-> eng, log |-> <<>>]
        ELSE
        LET sound_data == from_file(dir, unwrap(sel_file_name.name))
            stopped == stop_sound(ss, stop_ok)
            stop_log == IF is_some(ss.sound)
                        THEN << <<"stop", unwrap(ss.sound), eng[unwrap(ss.sound)]>> >>
                        ELSE <<>>
            eng1 == IF is_some(ss.sound) /\ stop_ok
                    THEN engine_stop(eng, unwrap(ss.sound)) ELSE eng
            play_handle == Len(eng1) + 1
        IN  IF stopped.err
            THEN [panic |-> FALSE, err |-> "stop", ss |-> stopped.ss, eng |-> eng1,
                  log |-> stop_log]
            ELSE IF ~sound_data.ok
            THEN [panic |-> FALSE, err |-> "decode", ss |-> stopped.ss, eng |-> eng1,
                  log |-> stop_log]
            ELSE IF ~play_ok
            THEN [panic |-> FALSE, err |-> "play", ss |-> stopped.ss, eng |-> eng1,
                  log |-> stop_log]
            ELSE [panic |-> FALSE, err |-> "",
                  ss |-> started_sound(stopped.ss, play_handle, sound_data.data),
                  eng |-> engine_play(eng1),
                  log |-> Append(stop_log, <<"play", play_handle, "Playing">>)]

\* mutant of play_selected_file: the running sound is stopped only once the
\* engine accepted the new one
play_selected_file_play_first(dir, sel, dirs, files, ss, eng, stop_ok, play_ok) ==
    LET sel_file_name == get_selected_file_name(sel, dirs, files)
    IN  IF sel_file_name.panic
        THEN [panic |-> TRUE, err |-> "", ss |-> ss, eng |-> eng, log |-> <<>>]
        ELSE IF is_none(sel_file_name.name)
        THEN [panic |-> FALSE, err |-> "", ss |-> ss, eng |-> eng, log |-> <<>>]
        ELSE
        LET sound_data == from_file(dir, unwrap(sel_file_name.name))
            stopped == stop_sound(ss, stop_ok)
            stop_log == IF is_some(ss.sound)
                        THEN << <<"stop", unwrap(ss.sound), eng[unwrap(ss.sound)]>> >>
                        ELSE <<>>
            eng1 == IF is_some(ss.sound) /\ stop_ok
                    THEN engine_stop(eng, unwrap(ss.sound)) ELSE eng
            play_handle == Len(eng1) + 1
        IN  IF ~sound_data.ok
            THEN [panic |-> FALSE, err |-> "decode", ss |-> ss, eng |-> eng,
                  log |-> <<>>]
            ELSE IF ~play_ok
            THEN [panic |-> FALSE, err |-> "play", ss |-> ss, eng |-> eng,
                  log |-> <<>>]
            ELSE IF stopped.err
            THEN [panic |-> FALSE, err |-> "stop", ss |-> stopped.ss, eng |-> eng1,
                  log |-> stop_log]
            ELSE [panic |-> FALSE, err |-> "",
                  ss |-> started_sound(stopped.ss, play_handle, sound_data.data),
                  eng |-> engine_play(eng1),
                  log |-> Append(stop_log, <<"play", play_handle, "Playing">>)]

\* play_selected_file; stop_ok and play_ok are the results of the engine's
\* stop and play.  The result is [panic, err, ss, eng, log]: err names the
\* step that failed ("" when none did) and log the engine calls made, each
\* with its handle and the state the handle was in.
play_selected_file(dir, sel, dirs, files, ss, eng, stop_ok, play_ok) ==
    LET sel_file_name == get_selected_file_name(sel, dirs, files)
    IN  IF sel_file_name.panic
        THEN [panic |-> TRUE, err |-> "", ss |-> ss, eng |-> eng, log |-> <<>>]
        ELSE IF is_none(sel_file_name.name)
        THEN [panic |-> FALSE, err |-> "", ss |-> ss, eng |-> eng, log |-> <<>>]
        ELSE
        LET sound_data == from_file(dir, unwrap(sel_file_name.name))
            stopped == stop_sound(ss, stop_ok)
            stop_log == IF is_some(ss.sound)
                        THEN << <<"stop", unwrap(ss.sound), eng[unwrap(ss.sound)]>> >>
                        ELSE <<>>
            eng1 == IF is_some(ss.sound) /\ stop_ok
                    THEN engine_stop(eng, unwrap(ss.sound)) ELSE eng
            play_handle == Len(eng1) + 1
        IN  IF ~sound_data.ok
            THEN [panic |-> FALSE, err |-> "decode", ss |-> ss, eng |-> eng,
                  log |-> <<>>]
            ELSE IF stopped.err
            THEN [panic |-> FALSE, err |-> "stop", ss |-> stopped.ss, eng |-> eng1,
                  log |-> stop_log]
            ELSE IF ~play_ok
            THEN [panic |-> FALSE, err |-> "play", ss |-> stopped.ss, eng |-> eng1,
                  log |-> stop_log]
            ELSE [panic |-> FALSE, err |-> "",
                  ss |-> started_sound(stopped.ss, play_handle, sound_data.data),
                  eng |-> engine_play(eng1),
                  log |-> Append(stop_log, <<"play", play_handle, "Playing">>)]

----------------------------------------------------------------------------
(* State *)

VARIABLES
    pc,                      \* where the process is: setup, init, loop, poll,
                             \* teardown, exited, panicked (nav: the AppState alone)
    fsid,                    \* the file system of this run
    args_dir,                \* Args::dir
    needs_file_list_update,  \* AppState
    current_directory_path,
    last_error_msg,
    file_names,
    directory_names,
    file_list_state,         \* ListState::selected()
    select_file_info,
    sound_state,
    engine,                  \* the audio engine: the state of each handle
    engine_log,              \* the engine calls of the last start or stop
    since_last_tick,         \* Instant::now() - last_tick at the loop's top (ms)
    since_start,             \* the time since started_sound stored the session (ms)
    app_result,              \* run_app's result: "none", "ok", "err"
    exit_status,             \* the process's exit status, once exited
    printed_error,           \* whether an error was printed on the way out
    last_event,              \* what the last startup step or input event did
    nav_trace                \* the last two selection moves (AppState harness)

app_vars == <<needs_file_list_update, current_directory_path, last_error_msg,
              file_names, directory_names, file_list_state, select_file_info>>
sound_vars == <<sound_state, engine, engine_log>>
env_vars == <<fsid, args_dir>>
main_vars == <<app_result, exit_status, printed_error>>
vars == <<pc, env_vars, app_vars, sound_vars, since_last_tick, since_start,
          main_vars,
          last_event, nav_trace>>

fs == FileSystems[fsid]
total_size == Len(file_names) + Len(directory_names)

\* tick_rate and the idle poll timeout, in milliseconds
TICK_RATE == 66
IDLE_TIMEOUT == 1000

\* The clock after an iteration that waited wait ms in event::poll and left
\* the session ss: the time a session has existed runs from the
\* started_sound that stored it, and is kept up to DURATION_MAX + 1, above
\* every elapsed playtime.  Handlers take no time.
clock_after(started, ss, wait) ==
    IF started \/ is_none(ss.sound) THEN 0
    ELSE IF since_start + wait > DURATION_MAX THEN DURATION_MAX + 1
    ELSE since_start + wait

\* AppState::default() and the process before main runs
AppStateDefault ==
    /\ needs_file_list_update = FALSE
    /\ current_directory_path = EMPTY_PATH
    /\ last_error_msg = ""
    /\ file_names = <<>>
    /\ directory_names = <<>>
    /\ file_list_state = None
    /\ select_file_info = SoundFileCodecData_default
    /\ sound_state = SoundState_default

Init ==
    /\ pc = "setup"
    /\ fsid \in 1..Len(FileSystems)
    /\ args_dir \in ArgDirs
    /\ AppStateDefault
    /\ engine = <<>>
    /\ engine_log = <<>>
    /\ since_last_tick = 0
    /\ since_start = 0
    /\ app_result = "none"
    /\ exit_status = None
    /\ printed_error = FALSE
    /\ last_event = "none"
    /\ nav_trace = <<>>

\* writes the AppState fields of an enter_directory result
SetAppState(r) ==
    /\ needs_file_list_update' = r.needs_file_list_update
    /\ current_directory_path' = r.current_directory_path
    /\ last_error_msg' = r.last_error_msg
    /\ file_names' = r.file_names
    /\ directory_names' = r.directory_names
    /\ file_list_state' = r.file_list_state
    /\ select_file_info' = r.select_file_info

\* a panic aborts the process
PANIC_STATUS == 101

\* run_app returns inside its loop: app_state and audio_manager, its locals,
\* are dropped
ReturnFromLoop(result) ==
    /\ pc' = "teardown"
    /\ app_result' = result
    /\ needs_file_list_update' = FALSE
    /\ current_directory_path' = EMPTY_PATH
    /\ last_error_msg' = ""
    /\ file_names' = <<>>
    /\ directory_names' = <<>>
    /\ file_list_state' = None
    /\ select_file_info' = SoundFileCodecData_default
    /\ sound_state' = SoundState_default
    /\ engine' = <<>>
    /\ engine_log' = <<>>
    /\ since_last_tick' = 0
    /\ since_start' = 0

----------------------------------------------------------------------------
(* main and the start of run_app *)

\* main, up to the call of run_app: raw mode, alternate screen, Terminal::new.
\* An Err that main returns through ? is printed by the runtime, which exits
\* with status 1.
MainSetup ==
    /\ pc = "setup"
    /\ \E term_ok \in BOOLEAN :
          IF term_ok
          THEN pc' = "init" /\ exit_status' = exit_status
               /\ printed_error' = printed_error
          ELSE pc' = "exited" /\ exit_status' = Some(1)
               /\ printed_error' = TRUE
    /\ UNCHANGED <<env_vars, app_vars, sound_vars, since_last_tick, since_start, app_result,
                   last_event, nav_trace>>

\* run_app, up to the loop: AudioManager::new, the starting directory, the
\* first listing and the first selection
RunAppInit ==
    /\ pc = "init"
    /\ \E audio_ok \in BOOLEAN, cwd_ok \in BOOLEAN :
          IF ~audio_ok \/ (is_none(args_dir) /\ ~cwd_ok)
          THEN /\ app_result' = "err"
               /\ pc' = "teardown"
               /\ last_event' = IF ~audio_ok THEN "startup_err_audio"
                                ELSE "startup_err_cwd"
               /\ UNCHANGED <<app_vars, exit_status>>
          ELSE LET starting_dir == IF is_some(args_dir) THEN unwrap(args_dir)
                                   ELSE ProcessCwd[fsid]
               IN  \E dir_order \in DirOrders(fs, starting_dir),
                      file_order \in FileOrders(fs, starting_dir) :
                      \E r \in {enter_directory(fs, starting_dir, directory_names,
                                                file_names, last_error_msg,
                                                file_list_state, select_file_info,
                                                dir_order, file_order)} :
                          /\ SetAppState(r)
                          /\ pc' = IF r.panic THEN "panicked" ELSE "loop"
                          /\ exit_status' = IF r.panic THEN Some(PANIC_STATUS)
                                            ELSE exit_status
                          /\ last_event' = IF r.panic THEN "startup_panic"
                                           ELSE "startup"
                          /\ app_result' = app_result
    /\ since_last_tick' = 0
    /\ since_start' = 0
    /\ args_dir' = None    \* args.dir is moved out of args
    /\ UNCHANGED <<fsid, sound_vars, printed_error, nav_trace>>

\* main, after run_app returned: restore the terminal, print the error
MainTeardown ==
    /\ pc = "teardown"
    /\ \E restore_ok \in BOOLEAN :
          IF restore_ok
          THEN /\ printed_error' = (app_result = "err")
               /\ exit_status' = Some(0)
               /\ last_event' = last_event
          ELSE /\ printed_error' = TRUE
               /\ exit_status' = Some(1)
               /\ last_event' = "teardown_err"
    /\ pc' = "exited"
    /\ UNCHANGED <<env_vars, app_vars, sound_vars, since_last_tick, since_start, app_result,
                   nav_trace>>

----------------------------------------------------------------------------
(* The loop of run_app *)

\* the top of an iteration: the tick interval, add_playtime, terminal.draw
LoopTick ==
    /\ pc = "loop"
    /\ \E draw_ok \in BOOLEAN :
          IF draw_ok
          THEN LET tick_interval == since_last_tick
                   playing == is_playing(sound_state, engine)
               IN  /\ sound_state' = IF playing
                                     THEN add_playtime(sound_state, tick_interval)
                                     ELSE sound_state
                   /\ pc' = "poll"
                   /\ UNCHANGED <<app_vars, engine, engine_log, since_last_tick, since_start,
                                  app_result, last_event>>
          ELSE ReturnFromLoop("err") /\ last_event' = "io_err"
    /\ UNCHANGED <<env_vars, exit_status, printed_error, nav_trace>>

\* the timeout of event::poll
poll_timeout == IF is_playing(sound_state, engine) THEN TICK_RATE ELSE IDLE_TIMEOUT

\* the time an iteration takes when an event arrives: an event arrives
\* one tick into the wait or as the timeout ends
PollWaits == {poll_timeout, TICK_RATE}

\* event::poll or event::read fails
PollError ==
    /\ pc = "poll"
    /\ ReturnFromLoop("err")
    /\ last_event' = "io_err"
    /\ UNCHANGED <<env_vars, exit_status, printed_error, nav_trace>>

\* event::poll times out: no event
PollTimeout ==
    /\ pc = "poll"
    /\ since_last_tick' = poll_timeout
    /\ since_start' = clock_after(FALSE, sound_state, since_last_tick')
    /\ pc' = "loop"
    /\ last_event' = "timeout"
    /\ UNCHANGED <<env_vars, app_vars, sound_vars, main_vars, nav_trace>>

\* an event that is no key event (a mouse event, a resize)
NonKeyEvent ==
    /\ pc = "poll"
    /\ since_last_tick' \in PollWaits
    /\ since_start' = clock_after(FALSE, sound_state, since_last_tick')
    /\ pc' = "loop"
    /\ last_event' = "nonkey"
    /\ UNCHANGED <<env_vars, app_vars, sound_vars, main_vars, nav_trace>>

\* 'q'
KeyQuit ==
    /\ pc = "poll"
    /\ ReturnFromLoop("ok")
    /\ last_event' = "quit"
    /\ UNCHANGED <<env_vars, exit_status, printed_error, nav_trace>>

\* mutant of MoveSelection: the codec data is not refreshed after the move
MoveSelection_without_refresh(r, event) ==
    LET info == update_selected_file_info(r.sel, directory_names, file_names)
        panic == r.panic \/ info.panic
    IN  /\ last_error_msg' = ""
        /\ file_list_state' = r.sel
        /\ select_file_info' = select_file_info
        /\ pc' = IF panic THEN "panicked" ELSE "loop"
        /\ exit_status' = IF panic THEN Some(PANIC_STATUS) ELSE exit_status
        /\ last_event' = event
        /\ since_last_tick' \in PollWaits
        /\ since_start' = clock_after(FALSE, sound_state, since_last_tick')
        /\ UNCHANGED <<env_vars, needs_file_list_update, current_directory_path,
                       file_names, directory_names, sound_vars, app_result,
                       printed_error, nav_trace>>

\* the end of a handled key event that moved the selection with r, the
\* result of next_list_item or previous_list_item
MoveSelection(r, event) ==
    LET info == update_selected_file_info(r.sel, directory_names, file_names)
        panic == r.panic \/ info.panic
    IN  /\ last_error_msg' = ""
        /\ file_list_state' = r.sel
        /\ select_file_info' = IF r.panic THEN select_file_info ELSE info.info
        /\ pc' = IF panic THEN "panicked" ELSE "loop"
        /\ exit_status' = IF panic THEN Some(PANIC_STATUS) ELSE exit_status
        /\ last_event' = event
        /\ since_last_tick' \in PollWaits
        /\ since_start' = clock_after(FALSE, sound_state, since_last_tick')
        /\ UNCHANGED <<env_vars, needs_file_list_update, current_directory_path,
                       file_names, directory_names, sound_vars, app_result,
                       printed_error, nav_trace>>

\* 'j'
KeyJ ==
    /\ pc = "poll"
    /\ \E checks \in BOOLEAN :
          MoveSelection(next_list_item(file_list_state, file_names,
                                       directory_names, checks), "next")

\* 'k'
KeyK ==
    /\ pc = "poll"
    /\ \E checks \in BOOLEAN :
          MoveSelection(previous_list_item(file_list_state, file_names,
                                           directory_names, checks), "previous")

\* Backspace
KeyBackspace ==
    /\ pc = "poll"
    /\ \E stop_ok \in BOOLEAN :
          LET r == stop_sound(sound_state, stop_ok)
          IN  /\ sound_state' = r.ss
              /\ engine' = IF is_some(sound_state.sound) /\ stop_ok
                           THEN engine_stop(engine, unwrap(sound_state.sound))
                           ELSE engine
              /\ engine_log' = IF is_some(sound_state.sound)
                               THEN << <<"stop", unwrap(sound_state.sound),
                                         engine[unwrap(sound_state.sound)]>> >>
                               ELSE <<>>
              /\ last_error_msg' = IF r.err THEN ERR_STOP ELSE ""
              /\ last_event' = IF r.err THEN "stop_err" ELSE "stop"
    /\ pc' = "loop"
    /\ since_last_tick' \in PollWaits
    /\ since_start' = clock_after(FALSE, sound_state', since_last_tick')
    /\ UNCHANGED <<env_vars, needs_file_list_update, current_directory_path,
                   file_names, directory_names, file_list_state, select_file_info,
                   main_vars, nav_trace>>

\* ' ' on a file: play_selected_file.  The engine hands out MaxPlays handles
\* and fails every play after them.
KeySpaceFile ==
    /\ pc = "poll"
    /\ is_file_selected(file_list_state, directory_names)
    /\ \E stop_ok \in BOOLEAN, play_ok \in BOOLEAN :
          /\ play_ok => Len(engine) < MaxPlays
          /\ \E r \in {play_selected_file(current_directory_path, file_list_state,
                                          directory_names, file_names, sound_state,
                                          engine, stop_ok, play_ok)} :
                 /\ sound_state' = r.ss
                 /\ engine' = r.eng
                 /\ engine_log' = r.log
                 /\ last_error_msg' = IF r.err # "" THEN ERR_PLAY ELSE ""
                 /\ last_event' = IF r.panic THEN "play_panic"
                                  ELSE IF r.err # "" THEN "play_err_" \o r.err
                                  ELSE "play"
                 /\ pc' = IF r.panic THEN "panicked" ELSE "loop"
                 /\ exit_status' = IF r.panic THEN Some(PANIC_STATUS) ELSE exit_status
    /\ since_last_tick' \in PollWaits
    /\ since_start' = clock_after(last_event' = "play", sound_state',
                                   since_last_tick')
    /\ UNCHANGED <<env_vars, needs_file_list_update, current_directory_path,
                   file_names, directory_names, file_list_state, select_file_info,
                   app_result, printed_error, nav_trace>>

\* mutant of KeySpaceDir: a failed canonicalize puts the selection back on
\* index 0
KeySpaceDir_failure_resets_selection ==
    /\ pc = "poll"
    /\ ~is_file_selected(file_list_state, directory_names)
    /\ IF is_dir_selected(file_list_state, directory_names)
       THEN LET selected_dir_name ==
                    unwrap(get_selected_file_name(file_list_state, directory_names,
                                                  file_names).name)
                new_dir == join_canonical(current_directory_path, selected_dir_name)
            IN  \E canon_ok \in BOOLEAN :
                   IF canon_ok /\ new_dir \in DOMAIN fs
                   THEN \E dir_order \in DirOrders(fs, new_dir),
                           file_order \in FileOrders(fs, new_dir) :
                           \E r \in {enter_directory(fs, new_dir, directory_names,
                                                     file_names, "", file_list_state,
                                                     select_file_info, dir_order,
                                                     file_order)} :
                               /\ SetAppState(r)
                               /\ pc' = IF r.panic THEN "panicked" ELSE "loop"
                               /\ exit_status' = IF r.panic THEN Some(PANIC_STATUS)
                                                 ELSE exit_status
                               /\ last_event' = IF r.panic THEN "chdir_panic"
                                                ELSE "chdir"
                   ELSE /\ last_error_msg' = ERR_PATH
                        /\ last_event' = "chdir_err"
                        /\ pc' = "loop"
                        /\ file_list_state' = Some(0)
                        /\ UNCHANGED <<needs_file_list_update, current_directory_path,
                                       file_names, directory_names,
                                       select_file_info, exit_status>>
       ELSE /\ last_error_msg' = ""
            /\ last_event' = "activate_nothing"
            /\ pc' = "loop"
            /\ UNCHANGED <<needs_file_list_update, current_directory_path,
                           file_names, directory_names, file_list_state,
                           select_file_info, exit_status>>
    /\ since_last_tick' \in PollWaits
    /\ since_start' = clock_after(FALSE, sound_state, since_last_tick')
    /\ UNCHANGED <<env_vars, sound_vars, app_result, printed_error,
                   nav_trace>>

\* ' ' on a directory entry (or on no selection, which does nothing):
\* canonicalize the joined path and enter it.  canon_ok is whether
\* canonicalize succeeds on the directory, which may have changed since it
\* was listed.
KeySpaceDir ==
    /\ pc = "poll"
    /\ ~is_file_selected(file_list_state, directory_names)
    /\ IF is_dir_selected(file_list_state, directory_names)
       THEN LET selected_dir_name ==
                    unwrap(get_selected_file_name(file_list_state, directory_names,
                                                  file_names).name)
                new_dir == join_canonical(current_directory_path, selected_dir_name)
            IN  \E canon_ok \in BOOLEAN :
                   IF canon_ok /\ new_dir \in DOMAIN fs
                   THEN \E dir_order \in DirOrders(fs, new_dir),
                           file_order \in FileOrders(fs, new_dir) :
                           \E r \in {enter_directory(fs, new_dir, directory_names,
                                                     file_names, "", file_list_state,
                                                     select_file_info, dir_order,
                                                     file_order)} :
                               /\ SetAppState(r)
                               /\ pc' = IF r.panic THEN "panicked" ELSE "loop"
                               /\ exit_status' = IF r.panic THEN Some(PANIC_STATUS)
                                                 ELSE exit_status
                               /\ last_event' = IF r.panic THEN "chdir_panic"
                                                ELSE "chdir"
                   ELSE /\ last_error_msg' = ERR_PATH
                        /\ last_event' = "chdir_err"
                        /\ pc' = "loop"
                        /\ UNCHANGED <<needs_file_list_update, current_directory_path,
                                       file_names, directory_names, file_list_state,
                                       select_file_info, exit_status>>
       ELSE /\ last_error_msg' = ""
            /\ last_event' = "activate_nothing"
            /\ pc' = "loop"
            /\ UNCHANGED <<needs_file_list_update, current_directory_path,
                           file_names, directory_names, file_list_state,
                           select_file_info, exit_status>>
    /\ since_last_tick' \in PollWaits
    /\ since_start' = clock_after(FALSE, sound_state, since_last_tick')
    /\ UNCHANGED <<env_vars, sound_vars, app_result, printed_error,
                   nav_trace>>

\* mutant of KeyOther: the error message is not cleared
KeyOther_keeps_error ==
    /\ pc = "poll"
    /\ pc' = "loop"
    /\ last_event' = "other"
    /\ since_last_tick' \in PollWaits
    /\ since_start' = clock_after(FALSE, sound_state, since_last_tick')
    /\ UNCHANGED <<env_vars, app_vars, sound_vars, main_vars, nav_trace>>

\* any other key
KeyOther ==
    /\ pc = "poll"
    /\ last_error_msg' = ""
    /\ pc' = "loop"
    /\ last_event' = "other"
    /\ since_last_tick' \in PollWaits
    /\ since_start' = clock_after(FALSE, sound_state, since_last_tick')
    /\ UNCHANGED <<env_vars, needs_file_list_update, current_directory_path,
                   file_names, directory_names, file_list_state, select_file_info,
                   sound_vars, main_vars, nav_trace>>

\* mutant of SoundFinishes: the end of the sound resets the elapsed playtime
SoundFinishes_resets_playtime ==
    /\ pc \in {"loop", "poll"}
    /\ \E h \in 1..Len(engine) :
          /\ engine[h] = "Playing"
          /\ engine' = [engine EXCEPT ![h] = "Stopped"]
    /\ sound_state' = [sound_state EXCEPT !.play_time = 0]
    /\ UNCHANGED <<pc, env_vars, app_vars, engine_log, since_last_tick, since_start,
                   main_vars, last_event, nav_trace>>

\* the engine, on its own thread: a playing sound reaches its end
SoundFinishes ==
    /\ pc \in {"loop", "poll"}
    /\ \E h \in 1..Len(engine) :
          /\ engine[h] = "Playing"
          /\ engine' = [engine EXCEPT ![h] = "Stopped"]
    /\ UNCHANGED <<pc, env_vars, app_vars, sound_state, engine_log, since_last_tick, since_start,
                   main_vars, last_event, nav_trace>>

Next ==
    \/ MainSetup
    \/ RunAppInit
    \/ MainTeardown
    \/ LoopTick
    \/ PollError
    \/ PollTimeout
    \/ NonKeyEvent
    \/ KeyQuit
    \/ KeyJ
    \/ KeyK
    \/ KeyBackspace
    \/ KeySpaceFile
    \/ KeySpaceDir
    \/ KeyOther
    \/ SoundFinishes

Spec == Init /\ [][Next]_vars

----------------------------------------------------------------------------
(* The selection operations of AppState on their own: an AppState holding  *)
(* the listing of any directory that can be listed, with any selection in  *)
(* range or none, and next_list_item, previous_list_item and               *)
(* _unselect_list_item called in any order.                                *)

\* the last move and the one before it
Moved(op, from, r) ==
    nav_trace' = (IF nav_trace = <<>> THEN <<>> ELSE <<nav_trace[Len(nav_trace)]>>)
                 \o <<[op |-> op, from |-> from, to |-> r.sel, panic |-> r.panic]>>

InitNav ==
    /\ pc = "nav"
    /\ fsid \in 1..Len(FileSystems)
    /\ args_dir = None
    /\ \E path \in DOMAIN FileSystems[fsid] :
          \E dir_order \in DirOrders(FileSystems[fsid], path),
             file_order \in FileOrders(FileSystems[fsid], path) :
             \E u \in {update_file_names(FileSystems[fsid], TRUE, path, <<>>, <<>>,
                                         "", None, dir_order, file_order)} :
                /\ ~u.panic
                /\ current_directory_path = path
                /\ needs_file_list_update = u.needs_file_list_update
                /\ last_error_msg = u.last_error_msg
                /\ file_names = u.file_names
                /\ directory_names = u.directory_names
                /\ file_list_state \in
                      {None} \cup {Some(i) : i \in 0..(Len(u.file_names)
                                                       + Len(u.directory_names) - 1)}
    /\ select_file_info = SoundFileCodecData_default
    /\ sound_state = SoundState_default
    /\ engine = <<>>
    /\ engine_log = <<>>
    /\ since_last_tick = 0
    /\ since_start = 0
    /\ app_result = "none"
    /\ exit_status = None
    /\ printed_error = FALSE
    /\ last_event = "none"
    /\ nav_trace = <<>>

NavFrame ==
    UNCHANGED <<env_vars, needs_file_list_update, current_directory_path,
                last_error_msg, file_names, directory_names, select_file_info,
                sound_vars, since_last_tick, since_start, app_result, printed_error, last_event>>

NavMove(op, r) ==
    /\ file_list_state' = r.sel
    /\ pc' = IF r.panic THEN "panicked" ELSE "nav"
    /\ exit_status' = IF r.panic THEN Some(PANIC_STATUS) ELSE exit_status
    /\ Moved(op, file_list_state, r)
    /\ NavFrame

NavNext ==
    /\ pc = "nav"
    /\ \E checks \in BOOLEAN :
          NavMove("next", next_list_item(file_list_state, file_names,
                                         directory_names, checks))

NavPrevious ==
    /\ pc = "nav"
    /\ \E checks \in BOOLEAN :
          NavMove("previous", previous_list_item(file_list_state, file_names,
                                                 directory_names, checks))

\* AppState::_unselect_list_item
NavUnselect ==
    /\ pc = "nav"
    /\ NavMove("unselect", [panic |-> FALSE, sel |-> None])

NextNav ==
    \/ NavNext
    \/ NavPrevious
    \/ NavUnselect

NavSpec == InitNav /\ [][NextNav]_vars

----------------------------------------------------------------------------
(* Properties *)

InLoop == pc \in {"loop", "poll"}

\* a key event was handled in this step
Handled == pc = "poll" /\ pc' = "loop"

\* the name behind the selection
selected_name ==
    unwrap(get_selected_file_name(file_list_state, directory_names, file_names).name)

\* the directory entry without its marker
strip_marker(d) == SubSeq(d, Len(DIR_LISTITEM_PREFIX) + 1, Len(d))

PlayingHandles == {h \in 1..Len(engine) : engine[h] = "Playing"}

\* C1: in every reachable state the selection index, when present, is below
\* dirCount + fileCount of the current listing, empty listings included.
C1_IndexInRange ==
    is_some(file_list_state) => unwrap(file_list_state) < total_size

\* C2: a current directory that cannot be listed, or that lists nothing, is
\* never fatal: the process does not abort, and a failed listing is recorded
\* in the last-error message.
C2_BadDirectoryNotFatal ==
    (current_directory_path # EMPTY_PATH /\ ~needs_file_list_update /\ total_size = 0)
        => /\ pc # "panicked"
           /\ ~read_dir_ok(fs, current_directory_path) => last_error_msg # ""

\* C3: a successful start of file A
C3_StartStep ==
    (Handled /\ last_event' = "play") =>
        /\ is_some(sound_state'.sound)
        /\ unwrap(sound_state'.sound) \notin 1..Len(engine)
        /\ {h \in 1..Len(engine') : engine'[h] = "Playing"} = {unwrap(sound_state'.sound)}
        /\ sound_state'.play_time = 0
        /\ sound_state'.play_duration = MEDIA[selected_name].duration
        /\ sound_state'.sound_data =
              Some([dir |-> current_directory_path, name |-> selected_name,
                    duration |-> MEDIA[selected_name].duration])
        /\ is_some(sound_state.sound) =>
              /\ engine'[unwrap(sound_state.sound)] = "Stopped"
              /\ engine_log' = << <<"stop", unwrap(sound_state.sound),
                                    engine[unwrap(sound_state.sound)]>>,
                                  <<"play", unwrap(sound_state'.sound), "Playing">> >>

\* C3: at most one playback is active at any time; after a successful start
\* of file A while file B's session is playing, the one session is A's, with
\* elapsed 0 and A's duration, and B's handle was stopped before A's playback
\* was started.
C3_OneSession ==
    /\ [](Cardinality(PlayingHandles) <= 1)
    /\ [][C3_StartStep]_vars

\* C3's case: A was started while B's handle was playing
C3_Witness ==
    /\ pc = "loop"
    /\ last_event = "play"
    /\ engine_log = << <<"stop", 1, "Playing">>, <<"play", 2, "Playing">> >>
    /\ sound_state.sound = Some(2)

\* C4: the activate key on a selected file that cannot be decoded records a
\* playback error and leaves the session, and what the engine plays, as
\* they were.
C4_FailedDecodeKeepsSession ==
    [][(/\ Handled
        /\ last_event' \in {"play", "play_err_decode", "play_err_stop", "play_err_play"}
        /\ ~MEDIA[selected_name].decodes)
       => /\ last_event' = "play_err_decode"
          /\ last_error_msg' = ERR_PLAY
          /\ sound_state' = sound_state
          /\ engine' = engine]_vars

\* C4's case: the decode failed while a session was playing
C4_Witness ==
    /\ pc = "loop"
    /\ last_event = "play_err_decode"
    /\ is_playing(sound_state, engine)
    /\ sound_state.play_time > 0

\* C5: whenever the current directory has a parent, "<DIR> .." is at index 0
\* of the directory sequence after every listing refresh.
C5_ParentFirst ==
    (InLoop /\ has_parent(current_directory_path))
        => /\ Len(directory_names) >= 1
           /\ directory_names[1] = concat(DIR_LISTITEM_PREFIX, PARENT_NAME)

\* ascending, case-insensitively
names_ascending(names) ==
    \A i, j \in 1..Len(names) :
        i < j => ~str_lt(to_lowercase(names[j]), to_lowercase(names[i]))

\* C6: after a listing refresh the directory entries all carry the marker
\* and are in ascending case-insensitive name order, the file names are in
\* ascending case-insensitive order, they are the directory's visible
\* directories and supported files, and an index below dirCount denotes a
\* directory and any other index a file.
C6_ListingOrdered ==
    InLoop =>
        LET dir_names == [i \in 1..Len(directory_names) |->
                             strip_marker(directory_names[i])]
        IN  /\ \A i \in 1..Len(directory_names) :
                   starts_with(directory_names[i], DIR_LISTITEM_PREFIX)
            /\ names_ascending(dir_names)
            /\ names_ascending(file_names)
            /\ {dir_names[i] : i \in 1..Len(dir_names)} =
                  visible_dirs(fs, current_directory_path)
                  \cup (IF has_parent(current_directory_path) THEN {PARENT_NAME} ELSE {})
            /\ {file_names[i] : i \in 1..Len(file_names)} =
                  supported_files(fs, current_directory_path)
            /\ \A k \in 0..(total_size - 1) :
                  LET name == get_selected_file_name(Some(k), directory_names,
                                                     file_names)
                  IN  IF k < Len(directory_names)
                      THEN /\ is_dir_selected(Some(k), directory_names)
                           /\ ~is_file_selected(Some(k), directory_names)
                           /\ name = [panic |-> FALSE, name |-> Some(dir_names[k + 1])]
                      ELSE /\ is_file_selected(Some(k), directory_names)
                           /\ ~is_dir_selected(Some(k), directory_names)
                           /\ name = [panic |-> FALSE,
                                      name |-> Some(file_names[k - Len(directory_names) + 1])]

\* C6's case: a directory with several directories and files was entered
C6_Witness ==
    /\ pc = "loop"
    /\ last_event = "chdir"
    /\ Len(directory_names) >= 3
    /\ Len(file_names) >= 2

\* the last selection move
last_move == nav_trace[Len(nav_trace)]

\* the listing is not empty and the move started in range or with none
nav_start_ok(m) ==
    /\ total_size > 0
    /\ m.op \in {"next", "previous"}
    /\ is_some(m.from) => unwrap(m.from) < total_size

\* C7: on a non-empty listing, from any selection in range or none, next and
\* previous give an index in [0, dirCount + fileCount); next wraps from the
\* last index to 0 and previous from 0 to the last index.
C7_MoveStaysInRange ==
    (nav_trace # <<>> /\ nav_start_ok(last_move)) =>
        /\ ~last_move.panic
        /\ is_some(last_move.to)
        /\ unwrap(last_move.to) < total_size
        /\ (last_move.op = "next" /\ last_move.from = Some(total_size - 1))
              => last_move.to = Some(0)
        /\ (last_move.op = "previous" /\ last_move.from = Some(0))
              => last_move.to = Some(total_size - 1)

\* C7's case: next wrapped at the last index of a listing of several entries
C7_Witness ==
    /\ nav_trace # <<>>
    /\ total_size > 1
    /\ last_move.op = "next"
    /\ last_move.from = Some(total_size - 1)
    /\ file_list_state = Some(0)

\* C8: on a non-empty listing, next followed by previous returns the
\* selection to the index it started from, for every starting index in range.
C8_NextThenPrevious ==
    (/\ Len(nav_trace) = 2
     /\ nav_trace[1].op = "next"
     /\ nav_trace[2].op = "previous"
     /\ total_size > 0
     /\ is_some(nav_trace[1].from)
     /\ unwrap(nav_trace[1].from) < total_size)
        => /\ nav_trace[2].from = nav_trace[1].to
           /\ nav_trace[2].to = nav_trace[1].from
           /\ file_list_state = nav_trace[1].from

\* C8's case: next wrapped from the last index and previous went back to it
C8_Witness ==
    /\ Len(nav_trace) = 2
    /\ nav_trace[1].op = "next"
    /\ nav_trace[2].op = "previous"
    /\ total_size > 1
    /\ nav_trace[1].from = Some(total_size - 1)
    /\ file_list_state = Some(total_size - 1)

\* C9: with no selection, next selects index 0 and previous selects index 0
\* too, whatever the size of the listing.
C9_FromNoneToZero ==
    (/\ nav_trace # <<>>
     /\ last_move.op \in {"next", "previous"}
     /\ is_none(last_move.from))
        => /\ ~last_move.panic
           /\ last_move.to = Some(0)
           /\ file_list_state = Some(0)

\* C9's case: previous was called with no selection on a listing of several
\* entries
C9_Witness ==
    /\ nav_trace # <<>>
    /\ last_move.op = "previous"
    /\ is_none(last_move.from)
    /\ total_size > 1
    /\ file_list_state = Some(0)

\* a tick: the top of a loop iteration, up to the poll
Ticked == pc = "loop" /\ pc' = "poll"

\* C10 as stated: on each iteration elapsed is unchanged when the session is
\* absent or not Playing; when Playing it grows by the tick delta, saturating
\* at the representable maximum.
C10_TickSaturates ==
    [][Ticked =>
          sound_state'.play_time =
              IF ~is_playing(sound_state, engine) THEN sound_state.play_time
              ELSE IF sound_state.play_time + since_last_tick > DURATION_MAX
              THEN DURATION_MAX
              ELSE sound_state.play_time + since_last_tick]_vars

\* C10 amended: on each iteration elapsed is unchanged when the session is
\* absent or not Playing; when Playing it grows by exactly the tick delta,
\* and is left unchanged when the sum would exceed the representable
\* maximum; it never decreases and never overflows.
C10_TickChecked ==
    [][Ticked =>
          /\ sound_state'.play_time =
                IF ~is_playing(sound_state, engine) THEN sound_state.play_time
                ELSE IF sound_state.play_time + since_last_tick > DURATION_MAX
                THEN sound_state.play_time
                ELSE sound_state.play_time + since_last_tick
          /\ sound_state'.play_time >= sound_state.play_time
          /\ sound_state'.play_time <= DURATION_MAX
          /\ sound_state' = [sound_state EXCEPT !.play_time = sound_state'.play_time]
      ]_vars

\* C10's case: a tick while Playing whose sum exceeded the maximum (elapsed
\* below the interval shows that the interval was not added)
C10_Witness ==
    /\ pc = "poll"
    /\ is_playing(sound_state, engine)
    /\ sound_state.play_time < since_last_tick

\* C11: stop is idempotent.  With no session it succeeds and changes nothing;
\* with a session whose engine stop succeeds it leaves no session and elapsed
\* playtime 0, and a stop right after it is a no-op success; when the engine
\* stop fails the failure is recorded in the last-error message and the
\* session is kept.
C11_StopIdempotent ==
    [][(Handled /\ last_event' \in {"stop", "stop_err"}) =>
          IF is_none(sound_state.sound)
          THEN /\ last_event' = "stop"
               /\ last_error_msg' = ""
               /\ sound_state' = sound_state
               /\ engine' = engine
               /\ engine_log' = <<>>
          ELSE IF last_event' = "stop"
          THEN /\ last_error_msg' = ""
               /\ is_none(sound_state'.sound)
               /\ is_none(sound_state'.sound_data)
               /\ sound_state'.play_time = 0
               /\ engine' = [engine EXCEPT ![unwrap(sound_state.sound)] = "Stopped"]
               /\ \A stop_ok \in BOOLEAN :
                      stop_sound(sound_state', stop_ok) =
                          [err |-> FALSE, ss |-> sound_state']
          ELSE /\ last_error_msg' = ERR_STOP
               /\ sound_state' = sound_state
               /\ engine' = engine
      ]_vars

\* C11's case: a stop with no session, after a session was released
C11_Witness ==
    /\ pc = "loop"
    /\ last_event = "stop"
    /\ engine_log = <<>>
    /\ Len(engine) >= 1
    /\ sound_state = [SoundState_default EXCEPT !.play_duration = sound_state.play_duration]
    /\ sound_state.play_duration > 0

\* C12: after startup and after every handled key event, a selection that
\* is a directory entry or absent has all codec fields absent; the fields
\* are populated only while a file is selected, from that file's probe, and
\* a failed probe leaves them absent with the new selection in place.
C12_CodecInfoFollowsSelection ==
    InLoop =>
        IF is_file_selected(file_list_state, directory_names)
        THEN /\ unwrap(file_list_state) < total_size
             /\ select_file_info = probe(selected_name).info
             /\ ~probe(selected_name).ok => select_file_info = SoundFileCodecData_default
        ELSE select_file_info = SoundFileCodecData_default

\* C12's case: the up key moved the selection from the first file, whose
\* probe succeeds, to the directory entry above it
C12_Witness ==
    /\ pc = "loop"
    /\ last_event = "previous"
    /\ Len(directory_names) >= 1
    /\ Len(file_names) >= 1
    /\ probe(file_names[1]).ok
    /\ probe(file_names[1]).info # SoundFileCodecData_default
    /\ file_list_state = Some(Len(directory_names) - 1)
    /\ select_file_info = SoundFileCodecData_default

\* a key event was dispatched in this step, whether or not its handler
\* returned
Dispatched == pc = "poll" /\ pc' # "poll"

\* C13: activating a directory entry whose path resolves sets the current
\* directory to the resolved path, replaces the listing with the listing of
\* that directory and sets the selection to index 0, whatever the selection
\* was before.
C13_ActivateDirectory ==
    [][(Dispatched /\ last_event' \in {"chdir", "chdir_panic"}) =>
          LET new_dir == join_canonical(current_directory_path, selected_name)
          IN  /\ pc' = "loop"
              /\ current_directory_path' = new_dir
              /\ {strip_marker(directory_names'[i]) : i \in 1..Len(directory_names')} =
                    visible_dirs(fs, new_dir)
                    \cup (IF has_parent(new_dir) THEN {PARENT_NAME} ELSE {})
              /\ {file_names'[i] : i \in 1..Len(file_names')} =
                    supported_files(fs, new_dir)
              /\ file_list_state' = Some(0)
      ]_vars

\* C14: a normal quit exits with success, and an unrecoverable startup
\* failure (raw mode cannot be enabled, the audio output cannot be
\* initialized) prints an error and exits with a non-zero status.
C14_ExitStatus ==
    pc = "exited" =>
        /\ last_event = "quit" => exit_status = Some(0)
        /\ last_event \in {"none", "startup_err_audio"} =>
              /\ printed_error
              /\ is_some(exit_status)
              /\ exit_status # Some(0)

\* C15: when the down or up key moves the selection to a file whose codec
\* probe fails, the failure becomes the new last-error message, the key
\* event is otherwise completed and the loop continues.
C15_ProbeFailureReported ==
    [][(/\ Dispatched
        /\ last_event' \in {"next", "previous"}
        /\ is_file_selected(file_list_state', directory_names')
        /\ unwrap(file_list_state') < Len(directory_names') + Len(file_names')
        /\ ~probe(file_names'[unwrap(file_list_state') - Len(directory_names') + 1]).ok)
       => /\ pc' = "loop"
          /\ select_file_info' = SoundFileCodecData_default
          /\ last_error_msg' # ""
      ]_vars

\* what last_event records of a key event whose operation succeeded, and of
\* a poll that brought no key event
SucceededEvents == {"next", "previous", "stop", "play", "chdir", "activate_nothing", "other"}
NoKeyEvents == {"timeout", "nonkey"}

\* C16: the last-error message is cleared at the start of every key event
\* and changed by nothing but a failing operation of that event: after a key
\* event whose operation succeeded, or an unbound key, it is empty; a failing
\* operation leaves its own message; across ticks, poll timeouts and events
\* that are no key events it is unchanged.
C16_ErrorClearedPerKey ==
    [][InLoop =>
          /\ (Dispatched /\ last_event' \in SucceededEvents) => last_error_msg' = ""
          /\ (Dispatched /\ last_event' = "stop_err") => last_error_msg' = ERR_STOP
          /\ (Dispatched /\ last_event' \in {"play_err_decode", "play_err_stop",
                                               "play_err_play"})
                => last_error_msg' = ERR_PLAY
          /\ (Dispatched /\ last_event' = "chdir_err") => last_error_msg' = ERR_PATH
          /\ (Dispatched /\ last_event' = "chdir_panic")
                => last_error_msg' \in {"", ERR_DIR_LIST, ERR_FILE_LIST}
          /\ (Dispatched /\ last_event' \in NoKeyEvents) => last_error_msg' = last_error_msg
          /\ (~Dispatched /\ pc' \in {"loop", "poll"}) => last_error_msg' = last_error_msg
      ]_vars

\* C16's case: a message outlived a poll timeout
C16_Witness ==
    /\ pc = "loop"
    /\ last_event = "timeout"
    /\ last_error_msg # ""

\* C17: activating a directory entry whose joined path cannot be
\* canonicalized records an error message and leaves the rest of the state
\* unchanged: current directory, directory and file sequences, selection,
\* codec data and playback session.
C17_FailedActivateFrame ==
    [][(Dispatched /\ last_event' = "chdir_err") =>
          /\ pc' = "loop"
          /\ last_error_msg' = ERR_PATH
          /\ UNCHANGED <<needs_file_list_update, current_directory_path,
                         file_names, directory_names, file_list_state,
                         select_file_info, sound_state, engine>>
      ]_vars

\* C17's case: the activation failed on a directory entry below the first,
\* while a session was playing
C17_Witness ==
    /\ pc = "loop"
    /\ last_event = "chdir_err"
    /\ last_error_msg = ERR_PATH
    /\ is_dir_selected(file_list_state, directory_names)
    /\ unwrap(file_list_state) > 0
    /\ is_playing(sound_state, engine)
    /\ sound_state.play_time > 0

\* C18: a start that fails at the engine's play, after the file decoded,
\* reports the failure in the last-error message and leaves no session: the
\* session that was active has been stopped and released, no handle for the
\* new file is stored, nothing plays and elapsed playtime is 0.
C18_FailedPlayLeavesNoSession ==
    [][(Dispatched /\ last_event' = "play_err_play") =>
          /\ pc' = "loop"
          /\ MEDIA[selected_name].decodes
          /\ last_error_msg' = ERR_PLAY
          /\ is_none(sound_state'.sound)
          /\ is_none(sound_state'.sound_data)
          /\ sound_state'.play_time = 0
          /\ Len(engine') = Len(engine)
          /\ {h \in 1..Len(engine') : engine'[h] = "Playing"} = {}
          /\ is_some(sound_state.sound) =>
                /\ engine'[unwrap(sound_state.sound)] = "Stopped"
                /\ engine_log' = << <<"stop", unwrap(sound_state.sound),
                                      engine[unwrap(sound_state.sound)]>> >>
      ]_vars

\* C18's case: the play failed after a playing session was stopped for it
C18_Witness ==
    /\ pc = "loop"
    /\ last_event = "play_err_play"
    /\ engine_log = << <<"stop", 1, "Playing">> >>
    /\ engine = <<"Stopped">>
    /\ is_none(sound_state.sound)
    /\ sound_state.play_duration > 0

\* started_sound stored a handle in this step
SessionStarted == Dispatched /\ last_event' = "play"

\* stop_sound released the session in this step: on the stop key, or for
\* the file about to be started
SessionReleased ==
    /\ Dispatched
    /\ last_event' \in {"stop", "play", "play_err_play"}
    /\ is_some(sound_state.sound)
    /\ engine_log' # <<>>
    /\ engine_log'[1][1] = "stop"

\* C19: while the loop runs, elapsed playtime is set to zero when a session
\* starts and when a stop releases a session, and by nothing else: in every
\* other step it does not decrease, and it is kept when the sound finishes
\* on its own and when the selection or the directory changes.
C19_ElapsedResets ==
    [][(InLoop /\ pc' \in {"loop", "poll"}) =>
          /\ (SessionStarted \/ SessionReleased) => sound_state'.play_time = 0
          /\ ~(SessionStarted \/ SessionReleased)
                => sound_state'.play_time >= sound_state.play_time
          /\ (Dispatched /\ last_event' \in {"next", "previous", "chdir", "chdir_err"})
                => sound_state'.play_time = sound_state.play_time
          /\ (engine' # engine /\ ~Dispatched)
                => sound_state'.play_time = sound_state.play_time
      ]_vars

\* C19's case: the sound finished on its own, then the selection moved, and
\* the elapsed playtime is still there
C19_Witness ==
    /\ pc = "loop"
    /\ last_event = "next"
    /\ is_some(sound_state.sound)
    /\ engine[unwrap(sound_state.sound)] = "Stopped"
    /\ sound_state.play_time > 0

\* C20: the loop ends successfully if and only if the quit key is received:
\* the quit key ends it at once whatever the playback or error state, and no
\* other key, poll timeout, navigation failure or playback failure ends it.
C20_OnlyQuitEndsLoop ==
    [][InLoop =>
          /\ (app_result' = "ok") <=> (Dispatched /\ last_event' = "quit")
          /\ (Dispatched /\ last_event' = "quit") => pc' = "teardown"
          /\ (Dispatched /\ last_event' \notin {"quit", "io_err"}) => pc' = "loop"
      ]_vars

\* C21: elapsed playtime only accumulates time during which the session was
\* playing: at every tick it is at most the wall-clock time that has passed
\* since the session was started, the first tick after a start that followed
\* an idle input wait included.
C21_ElapsedWithinWallClock ==
    (InLoop /\ is_some(sound_state.sound)) => sound_state.play_time <= since_start

\* what last_event records of the down and up keys and of the activate key
\* on a directory entry
BrowseEvents == {"next", "previous", "chdir", "chdir_err", "chdir_panic"}

\* C22: browsing never disturbs playback.  The down and up keys and the
\* activate key on a directory entry, successful or failed, listing refresh
\* and codec refresh included, leave the loop running with the playback
\* session unchanged: same handle, same total duration, same elapsed
\* playtime; and the stop key leaves the current directory, the listing and
\* the selection unchanged.
C22_BrowsingKeepsPlayback ==
    [][/\ (Dispatched /\ last_event' \in BrowseEvents) =>
             /\ sound_state' = sound_state
             /\ engine' = engine
             /\ is_some(sound_state.sound) => pc' = "loop"
       /\ (Dispatched /\ last_event' \in {"stop", "stop_err"}) =>
             /\ pc' = "loop"
             /\ UNCHANGED <<current_directory_path, directory_names, file_names,
                            file_list_state, select_file_info>>
      ]_vars

=============================================================================
